---- MODULE Spec2Model ----
(***************************************************************************)
(* Model of oy3o/singleflight (src/singleflight.go): Group.Do, doCall and  *)
(* Group.Forget, run by concurrent goroutines over one Group.              *)
(*                                                                         *)
(* Every goroutine in Procs performs one Do call; Forget calls come from   *)
(* any other goroutine.  g.mu is an explicit variable: a critical section  *)
(* of Do is two steps, Lock and then body-with-Unlock.  The code outside   *)
(* the critical sections is split where another goroutine can observe or   *)
(* change what it reads: fn, the recycle block (lines 102-116) and the     *)
(* final return (lines 118-122) are separate steps.                        *)
(***************************************************************************)
EXTENDS Integers, FiniteSets, Sequences, TLC

\* ---- bounds ----
NumProcs == 3

Procs == 1..NumProcs
\* the keys of g.calls
Keys == {1, 2}
\* the keys passed to Do.  The calls modelled contend on one key: calls on
\* different keys meet only in g.mu and g.pool, which successive calls on one
\* key go through as well.  The other key is one that Forget is called with
\* while no call is in flight on it
DoKeys == {1}
\* every Do call allocates at most one call record
Recs == 1..NumProcs

\* nil pointer / zero value / nil error / unlocked mutex
Nil == 0
\* ctx.Err() of a cancelled context (line 77)
ErrCanceled == -1

VARIABLES
  calls,      \* g.calls : key -> record, Nil when the key is absent
  mu,         \* g.mu : Nil or the goroutine holding it
  pool,       \* g.pool : the records Put and not yet taken by Get
  nextRec,    \* number of records allocated by new(call[V]) so far
  recs,       \* the heap: record -> its fields
  pc,         \* position of each goroutine in Do
  key,        \* Do's parameter key
  c,          \* Do's local c
  cancelled,  \* whether the goroutine's ctx is cancelled (ctx.Done() closed)
  sel,        \* the select case the follower runs
  lval,       \* Do's locals val and err (lines 102-103)
  lerr,
  panicked,   \* Do's local panicked (line 104)
  res,        \* what Do returned to its caller, or the panic it raised
  \* history variables, read by no guard and no update of a program variable
  role,       \* "none", "leader" or "follower"
  fnOut,      \* what the goroutine's own fn did, [kind |-> "none"] if not run
  ldr,        \* for a follower: the goroutine leading the record it joined
  joined,     \* for a leader: number of followers that joined its call
  leaderOf,   \* record -> the goroutine that last inserted it into g.calls
  cancelWhen  \* what the cancellation of a follower's ctx met, see Cancel

vars == <<calls, mu, pool, nextRec, recs, pc, key, c, cancelled, sel, lval,
          lerr, panicked, res, role, fnOut, ldr, joined, leaderOf, cancelWhen>>

histVars == <<role, fnOut, ldr, joined, leaderOf, cancelWhen>>

\* ---- the call struct (lines 22-37) ----
\* done is "nil", "open" or "closed"; panicErr is Nil or the panic payload
ZeroCall == [val |-> Nil, err |-> Nil, panicErr |-> Nil, done |-> "nil",
             dups |-> 0, forgotten |-> FALSE]

NoRes == [kind |-> "none"]
NoOut == [kind |-> "none"]

\* what the fn passed by goroutine p can do (line 142): return a value,
\* return an error, or panic.  Every caller passes its own fn, and what it
\* produces is tagged with p, so that the outcomes of two executions differ
FnOutcomes(p) ==
  {[kind |-> "ret", val |-> p, err |-> Nil],
   [kind |-> "ret", val |-> Nil, err |-> p],
   [kind |-> "panic", payload |-> p]}

\* NewGroup (lines 40-49), or the zero Group the tests use
Init ==
  /\ calls = [k \in Keys |-> Nil]
  /\ mu = Nil
  /\ pool = {}
  /\ nextRec = 0
  /\ recs = [r \in Recs |-> ZeroCall]
  /\ pc = [p \in Procs |-> "idle"]
  /\ key = [p \in Procs |-> Nil]
  /\ c = [p \in Procs |-> Nil]
  /\ cancelled = [p \in Procs |-> FALSE]
  /\ sel = [p \in Procs |-> "none"]
  /\ lval = [p \in Procs |-> Nil]
  /\ lerr = [p \in Procs |-> Nil]
  /\ panicked = [p \in Procs |-> FALSE]
  /\ res = [p \in Procs |-> NoRes]
  /\ role = [p \in Procs |-> "none"]
  /\ fnOut = [p \in Procs |-> NoOut]
  /\ ldr = [p \in Procs |-> Nil]
  /\ joined = [p \in Procs |-> 0]
  /\ leaderOf = [r \in Recs |-> Nil]
  /\ cancelWhen = [p \in Procs |-> "never"]

\* the positions of a leader from the insert of its record (line 95) to the
\* end of its completion critical section (line 139)
InFlight == {"fn", "deferLock", "deferBody"}

\* ---- Do, line 55: g.mu.Lock() ----
\* the goroutines run the same code: they are numbered in the order in which
\* they take the lock
DoLock(p, k) ==
  /\ pc[p] = "idle"
  /\ \A q \in Procs : q < p => pc[q] # "idle"
  /\ mu = Nil
  /\ mu' = p
  /\ pc' = [pc EXCEPT ![p] = "locked"]
  /\ key' = [key EXCEPT ![p] = k]
  /\ UNCHANGED <<calls, pool, nextRec, recs, c, cancelled, sel, lval, lerr,
                 panicked, res, histVars>>

\* a lookup that never finds the entry
FoundNever(p) == FALSE

\* ---- Do, line 61: c, ok := g.calls[key]; ok ----
Found(p) == calls[key[p]] # Nil

\* a follower that goes to its select without the Unlock of line 68
JoinKeepsLock(p) ==
  LET r == calls[key[p]] IN
  /\ pc[p] = "locked"
  /\ Found(p)
  /\ recs' = [recs EXCEPT ![r].dups = @ + 1,
                          ![r].done = IF @ = "nil" THEN "open" ELSE @]
  /\ c' = [c EXCEPT ![p] = r]
  /\ mu' = mu
  /\ pc' = [pc EXCEPT ![p] = "select"]
  /\ role' = [role EXCEPT ![p] = "follower"]
  /\ ldr' = [ldr EXCEPT ![p] = leaderOf[r]]
  /\ joined' = [joined EXCEPT ![leaderOf[r]] = @ + 1]
  /\ UNCHANGED <<calls, pool, nextRec, key, cancelled, sel, lval, lerr,
                 panicked, res, fnOut, leaderOf, cancelWhen>>

\* ---- Do, lines 61-68: join the existing call, then Unlock ----
Join(p) ==
  LET r == calls[key[p]] IN
  /\ pc[p] = "locked"
  /\ Found(p)
  /\ recs' = [recs EXCEPT ![r].dups = @ + 1,
                          ![r].done = IF @ = "nil" THEN "open" ELSE @]
  /\ c' = [c EXCEPT ![p] = r]
  /\ mu' = Nil
  /\ pc' = [pc EXCEPT ![p] = "select"]
  /\ role' = [role EXCEPT ![p] = "follower"]
  /\ ldr' = [ldr EXCEPT ![p] = leaderOf[r]]
  /\ joined' = [joined EXCEPT ![leaderOf[r]] = @ + 1]
  /\ UNCHANGED <<calls, pool, nextRec, key, cancelled, sel, lval, lerr,
                 panicked, res, fnOut, leaderOf, cancelWhen>>

\* g.pool.Get() (line 83): a pooled record, or none (sync.Pool may drop its
\* items at any time, and the zero Group has no New), and then new(call[V])
PoolGet == pool \cup {Nil}

\* a leader that creates the done channel when it inserts the record
LeadMakesChan(p) ==
  /\ pc[p] = "locked"
  /\ ~Found(p)
  /\ \E got \in PoolGet :
       LET r == IF got = Nil THEN nextRec + 1 ELSE got IN
       /\ pool' = pool \ {got}
       /\ nextRec' = IF got = Nil THEN nextRec + 1 ELSE nextRec
       /\ recs' = [recs EXCEPT ![r].dups = 0, ![r].forgotten = FALSE,
                               ![r].panicErr = Nil, ![r].done = "open"]
       /\ calls' = [calls EXCEPT ![key[p]] = r]
       /\ c' = [c EXCEPT ![p] = r]
       /\ leaderOf' = [leaderOf EXCEPT ![r] = p]
  /\ mu' = Nil
  /\ pc' = [pc EXCEPT ![p] = "fn"]
  /\ role' = [role EXCEPT ![p] = "leader"]
  /\ UNCHANGED <<key, cancelled, sel, lval, lerr, panicked, res, fnOut, ldr,
                 joined, cancelWhen>>

\* ---- Do, lines 82-96: take a record, reset it, insert it, Unlock ----
Lead(p) ==
  /\ pc[p] = "locked"
  /\ ~Found(p)
  /\ \E got \in PoolGet :
       LET r == IF got = Nil THEN nextRec + 1 ELSE got IN
       /\ pool' = pool \ {got}
       /\ nextRec' = IF got = Nil THEN nextRec + 1 ELSE nextRec
       /\ recs' = [recs EXCEPT ![r].dups = 0, ![r].forgotten = FALSE,
                               ![r].panicErr = Nil]
       /\ calls' = [calls EXCEPT ![key[p]] = r]
       /\ c' = [c EXCEPT ![p] = r]
       /\ leaderOf' = [leaderOf EXCEPT ![r] = p]
  /\ mu' = Nil
  /\ pc' = [pc EXCEPT ![p] = "fn"]
  /\ role' = [role EXCEPT ![p] = "leader"]
  /\ UNCHANGED <<key, cancelled, sel, lval, lerr, panicked, res, fnOut, ldr,
                 joined, cancelWhen>>

\* ---- doCall, line 142 and the recover of lines 128-130 ----
\* fn returns and c.val, c.err are assigned, or fn panics, nothing is
\* assigned and the deferred function stores the payload in c.panicErr
Fn(p) ==
  LET r == c[p] IN
  /\ pc[p] = "fn"
  /\ \E out \in FnOutcomes(p) :
       /\ recs' = IF out.kind = "ret"
                  THEN [recs EXCEPT ![r].val = out.val, ![r].err = out.err]
                  ELSE [recs EXCEPT ![r].panicErr = out.payload]
       /\ fnOut' = [fnOut EXCEPT ![p] = out]
  /\ pc' = [pc EXCEPT ![p] = "deferLock"]
  /\ UNCHANGED <<calls, mu, pool, nextRec, key, c, cancelled, sel, lval,
                 lerr, panicked, res, role, ldr, joined, leaderOf,
                 cancelWhen>>

\* ---- doCall, line 132: g.mu.Lock() in the deferred function ----
DeferLock(p) ==
  /\ pc[p] = "deferLock"
  /\ mu = Nil
  /\ mu' = p
  /\ pc' = [pc EXCEPT ![p] = "deferBody"]
  /\ UNCHANGED <<calls, pool, nextRec, recs, key, c, cancelled, sel, lval,
                 lerr, panicked, res, histVars>>

\* the followers blocked in the select of line 70 on record r's done channel
Parked(r) == {q \in Procs : pc[q] = "parked" /\ c[q] = r}

\* a cleanup that closes the channel only of a record that is in the map
ClosesIfInMap(r) == recs[r].done # "nil" /\ \E k \in Keys : calls[k] = r

\* a cleanup that leaves the channel open when fn panicked
ClosesUnlessPanic(r) == recs[r].done # "nil" /\ recs[r].panicErr = Nil

\* a cleanup that closes the channel only when it also deletes the entry
ClosesUnlessForgotten(r) == recs[r].done # "nil" /\ ~recs[r].forgotten

\* ---- doCall, line 133: if c.done != nil ----
Closes(r) == recs[r].done # "nil"

\* a cleanup that leaves the entry in the map
DeletesNever(r) == FALSE

\* a cleanup that deletes the entry of the key whatever it is
DeletesAlways(r) == TRUE

\* ---- doCall, line 136: if !c.forgotten ----
Deletes(r) == ~recs[r].forgotten

\* ---- doCall, lines 133-139: close(c.done), delete the entry, Unlock ----
\* close wakes every goroutine blocked on the channel, each with the
\* case <-done selected
DeferBody(p) ==
  LET r == c[p]
      woken == IF Closes(r) THEN Parked(r) ELSE {} IN
  /\ pc[p] = "deferBody"
  /\ recs' = [recs EXCEPT ![r].done = IF Closes(r) THEN "closed" ELSE @]
  /\ calls' = IF Deletes(r)
              THEN [calls EXCEPT ![key[p]] = Nil]
              ELSE calls
  /\ mu' = Nil
  /\ pc' = [q \in Procs |-> IF q = p THEN "recycle"
                            ELSE IF q \in woken THEN "woken" ELSE pc[q]]
  /\ sel' = [q \in Procs |-> IF q \in woken THEN "done" ELSE sel[q]]
  /\ UNCHANGED <<pool, nextRec, key, c, cancelled, lval, lerr, panicked,
                 res, histVars>>

\* no recycle condition: every record goes back to the pool
RecyclableAlways(r) == TRUE

\* a recycle condition that looks at the panic alone
RecyclableUnlessPanic(r) == recs[r].panicErr = Nil

\* the condition of line 110
Recyclable(r) ==
  /\ recs[r].panicErr = Nil
  /\ recs[r].dups = 0
  /\ recs[r].done = "nil"

\* a leader that recycles the record without zeroing it
RecycleKeepsValue(p) ==
  LET r == c[p] IN
  /\ pc[p] = "recycle"
  /\ lval' = [lval EXCEPT ![p] = recs[r].val]
  /\ lerr' = [lerr EXCEPT ![p] = recs[r].err]
  /\ panicked' = [panicked EXCEPT ![p] = recs[r].panicErr # Nil]
  /\ recs' = recs
  /\ pool' = IF Recyclable(r) THEN pool \cup {r} ELSE pool
  /\ pc' = [pc EXCEPT ![p] = "return"]
  /\ UNCHANGED <<calls, mu, nextRec, key, c, cancelled, sel, res, histVars>>

\* a leader that zeroes the record whether or not it recycles it
RecycleZeroes(p) ==
  LET r == c[p] IN
  /\ pc[p] = "recycle"
  /\ lval' = [lval EXCEPT ![p] = recs[r].val]
  /\ lerr' = [lerr EXCEPT ![p] = recs[r].err]
  /\ panicked' = [panicked EXCEPT ![p] = recs[r].panicErr # Nil]
  /\ recs' = [recs EXCEPT ![r].val = Nil, ![r].err = Nil]
  /\ pool' = IF Recyclable(r) THEN pool \cup {r} ELSE pool
  /\ pc' = [pc EXCEPT ![p] = "return"]
  /\ UNCHANGED <<calls, mu, nextRec, key, c, cancelled, sel, res, histVars>>

\* ---- Do, lines 102-116: copy the outcome, recycle a clean record ----
Recycle(p) ==
  LET r == c[p] IN
  /\ pc[p] = "recycle"
  /\ lval' = [lval EXCEPT ![p] = recs[r].val]
  /\ lerr' = [lerr EXCEPT ![p] = recs[r].err]
  /\ panicked' = [panicked EXCEPT ![p] = recs[r].panicErr # Nil]
  /\ IF Recyclable(r)
     THEN /\ recs' = [recs EXCEPT ![r].val = Nil, ![r].err = Nil]
          /\ pool' = pool \cup {r}
     ELSE UNCHANGED <<recs, pool>>
  /\ pc' = [pc EXCEPT ![p] = "return"]
  /\ UNCHANGED <<calls, mu, nextRec, key, c, cancelled, sel, res, histVars>>

\* Do returns and goroutine p's local c goes out of scope.  A record that
\* neither g.calls, g.pool nor another goroutine's c refers to is garbage:
\* the heap after the return holds the zero record in its place
Reachable(r, p) ==
  \/ \E k \in Keys : calls[k] = r
  \/ r \in pool
  \/ \E q \in Procs \ {p} : c[q] = r

Collect(p) ==
  LET r == c[p] IN
  IF Reachable(r, p)
  THEN UNCHANGED <<recs, leaderOf>>
  ELSE /\ recs' = [recs EXCEPT ![r] = ZeroCall]
       /\ leaderOf' = [leaderOf EXCEPT ![r] = Nil]

\* a leader that returns without the re-panic of lines 118-120
LeaderResNoRepanic(p) ==
  [kind |-> "ret", val |-> lval[p], shared |-> recs[c[p]].dups > 0,
   err |-> lerr[p]]

\* ---- Do, lines 118-122: re-panic, or return val, c.dups > 0, err ----
\* c.panicErr and c.dups are read from the record here, after the Put
LeaderRes(p) ==
  LET r == c[p] IN
  IF panicked[p]
  THEN [kind |-> "panic", payload |-> recs[r].panicErr]
  ELSE [kind |-> "ret", val |-> lval[p], shared |-> recs[r].dups > 0,
        err |-> lerr[p]]

LeaderReturn(p) ==
  /\ pc[p] = "return"
  /\ res' = [res EXCEPT ![p] = LeaderRes(p)]
  /\ pc' = [pc EXCEPT ![p] = "done"]
  /\ c' = [c EXCEPT ![p] = Nil]
  /\ lval' = [lval EXCEPT ![p] = Nil]
  /\ lerr' = [lerr EXCEPT ![p] = Nil]
  /\ panicked' = [panicked EXCEPT ![p] = FALSE]
  /\ Collect(p)
  /\ UNCHANGED <<calls, mu, pool, nextRec, key, cancelled, sel, role, fnOut,
                 ldr, joined, cancelWhen>>

\* a case <-done body that looks at ctx.Err() before the record
FollowerResCtxFirst(p, s) ==
  LET r == c[p] IN
  IF s = "done" /\ ~cancelled[p]
  THEN IF recs[r].panicErr # Nil
       THEN [kind |-> "panic", payload |-> recs[r].panicErr]
       ELSE [kind |-> "ret", val |-> recs[r].val, shared |-> TRUE,
             err |-> recs[r].err]
  ELSE [kind |-> "ret", val |-> Nil, shared |-> TRUE, err |-> ErrCanceled]

\* ---- Do, lines 71-77: the body of the select case s ----
FollowerRes(p, s) ==
  LET r == c[p] IN
  IF s = "done"
  THEN IF recs[r].panicErr # Nil
       THEN [kind |-> "panic", payload |-> recs[r].panicErr]
       ELSE [kind |-> "ret", val |-> recs[r].val, shared |-> TRUE,
             err |-> recs[r].err]
  ELSE [kind |-> "ret", val |-> Nil, shared |-> TRUE, err |-> ErrCanceled]

\* a follower that leaves on its cancellation takes itself off the count
FollowerReturnUnjoin(p, s) ==
  /\ sel' = [sel EXCEPT ![p] = s]
  /\ res' = [res EXCEPT ![p] = FollowerRes(p, s)]
  /\ pc' = [pc EXCEPT ![p] = "done"]
  /\ c' = [c EXCEPT ![p] = Nil]
  /\ cancelled' = [cancelled EXCEPT ![p] = FALSE]
  /\ recs' = IF s = "ctx" THEN [recs EXCEPT ![c[p]].dups = @ - 1] ELSE recs
  /\ UNCHANGED leaderOf

\* the follower runs the body of case s and Do returns
FollowerReturn(p, s) ==
  /\ sel' = [sel EXCEPT ![p] = s]
  /\ res' = [res EXCEPT ![p] = FollowerRes(p, s)]
  /\ pc' = [pc EXCEPT ![p] = "done"]
  /\ c' = [c EXCEPT ![p] = Nil]
  /\ cancelled' = [cancelled EXCEPT ![p] = FALSE]
  /\ Collect(p)

\* a select whose case <-done can proceed before the channel is closed
ReadyEarly(p) ==
  {"done"} \cup {s \in {"ctx"} : cancelled[p]}

\* the cases of the select of line 70 that can proceed
Ready(p) ==
  {s \in {"done"} : recs[c[p]].done = "closed"}
  \cup {s \in {"ctx"} : cancelled[p]}

\* ---- Do, line 70: the follower reaches the select ----
\* no case ready: it blocks; otherwise Go picks one of the ready cases at
\* random and the follower runs that case's body
Select(p) ==
  /\ pc[p] = "select"
  /\ IF Ready(p) = {}
     THEN /\ pc' = [pc EXCEPT ![p] = "parked"]
          /\ UNCHANGED <<sel, res, c, cancelled, recs, leaderOf>>
     ELSE \E s \in Ready(p) : FollowerReturn(p, s)
  /\ UNCHANGED <<calls, mu, pool, nextRec, key, lval, lerr, panicked, role,
                 fnOut, ldr, joined, cancelWhen>>

\* ---- Do, lines 71-77: a woken follower runs the case it was woken with ----
Resume(p) ==
  /\ pc[p] = "woken"
  /\ FollowerReturn(p, sel[p])
  /\ UNCHANGED <<calls, mu, pool, nextRec, key, lval, lerr, panicked, role,
                 fnOut, ldr, joined, cancelWhen>>

\* history: what the cancellation of follower p's ctx meets.
\*   "fnBlocked"  the leader is running fn, p is blocked in the select
\*   "fnEarly"    the leader is running fn, p has not reached the select
\*   "firedWoken" done is closed and has woken p, p has not resumed
\*   "firedEarly" done is closed, p has not reached the select
\*   "ending"     the leader is in its deferred function, done is not closed
\* and "never" as long as the ctx is not cancelled
Met(p) ==
  IF recs[c[p]].done = "closed"
  THEN IF pc[p] = "woken" THEN "firedWoken" ELSE "firedEarly"
  ELSE IF pc[ldr[p]] = "fn"
       THEN IF pc[p] = "parked" THEN "fnBlocked" ELSE "fnEarly"
       ELSE "ending"

\* ---- the caller cancels the ctx it passed to Do ----
\* Do reads ctx only in the follower's select; the leader hands it to fn,
\* whose outcome is arbitrary already.  A follower blocked in the select is
\* woken with the case <-ctx.Done() selected
Cancel(p) ==
  /\ pc[p] \in {"select", "parked", "woken"}
  /\ ~cancelled[p]
  /\ cancelled' = [cancelled EXCEPT ![p] = TRUE]
  /\ IF pc[p] = "parked"
     THEN /\ pc' = [pc EXCEPT ![p] = "woken"]
          /\ sel' = [sel EXCEPT ![p] = "ctx"]
     ELSE UNCHANGED <<pc, sel>>
  /\ cancelWhen' = [cancelWhen EXCEPT ![p] = Met(p)]
  /\ UNCHANGED <<calls, mu, pool, nextRec, recs, key, c, lval, lerr,
                 panicked, res, role, fnOut, ldr, joined, leaderOf>>

\* a Forget that marks every record allocated so far
ForgetMarksAll(k) ==
  /\ mu = Nil
  /\ recs' = [r \in Recs |-> IF r <= nextRec
                             THEN [recs[r] EXCEPT !.forgotten = TRUE]
                             ELSE recs[r]]
  /\ calls' = [calls EXCEPT ![k] = Nil]
  /\ mu' = Nil
  /\ UNCHANGED <<pool, nextRec, pc, key, c, cancelled, sel, lval, lerr,
                 panicked, res, histVars>>

\* a Forget that marks the record and leaves the entry in the map
ForgetMarksOnly(k) ==
  LET r == calls[k] IN
  /\ mu = Nil
  /\ recs' = IF r # Nil THEN [recs EXCEPT ![r].forgotten = TRUE] ELSE recs
  /\ mu' = Nil
  /\ UNCHANGED <<calls, pool, nextRec, pc, key, c, cancelled, sel, lval,
                 lerr, panicked, res, histVars>>

\* ---- Forget, lines 147-152: Lock, mark, delete, Unlock ----
\* the critical section is the whole function: it runs when the lock is free
Forget(k) ==
  LET r == calls[k] IN
  /\ mu = Nil
  /\ recs' = IF r # Nil THEN [recs EXCEPT ![r].forgotten = TRUE] ELSE recs
  /\ calls' = [calls EXCEPT ![k] = Nil]
  /\ mu' = Nil
  /\ UNCHANGED <<pool, nextRec, pc, key, c, cancelled, sel, lval, lerr,
                 panicked, res, histVars>>

Next ==
  \/ \E p \in Procs, k \in DoKeys : DoLock(p, k)
  \/ \E p \in Procs : Join(p)
  \/ \E p \in Procs : Lead(p)
  \/ \E p \in Procs : Fn(p)
  \/ \E p \in Procs : DeferLock(p)
  \/ \E p \in Procs : DeferBody(p)
  \/ \E p \in Procs : Recycle(p)
  \/ \E p \in Procs : LeaderReturn(p)
  \/ \E p \in Procs : Select(p)
  \/ \E p \in Procs : Resume(p)
  \/ \E p \in Procs : Cancel(p)
  \/ \E k \in Keys : Forget(k)

Spec == Init /\ [][Next]_vars

\* The scheduling of the Go runtime: a goroutine that can run its next step
\* runs it, and sync.Mutex hands the lock to a goroutine that keeps asking
\* for it (its starvation mode).  Nothing obliges a caller to call Do or
\* Forget, or to cancel its ctx; fn terminates
Fairness ==
  \A p \in Procs :
    /\ WF_vars(Join(p)) /\ WF_vars(Lead(p))
    /\ WF_vars(Fn(p))
    /\ SF_vars(DeferLock(p)) /\ WF_vars(DeferBody(p))
    /\ WF_vars(Recycle(p)) /\ WF_vars(LeaderReturn(p))
    /\ WF_vars(Select(p)) /\ WF_vars(Resume(p))

FairSpec == Spec /\ Fairness

(***************************************************************************)
(* The claims                                                              *)
(***************************************************************************)

\* the leaders of key k between the insert of their record and the end of
\* their completion critical section, whose record Forget has not marked
LiveLeaders(k) ==
  {p \in Procs : /\ role[p] = "leader"
                 /\ key[p] = k
                 /\ pc[p] \in InFlight
                 /\ ~recs[c[p]].forgotten}

\* C1: calls on one key that overlap, with no Forget on the key, run fn
\* once: at every state at most one leader per key is between the insert of
\* its record and its completion critical section (leaders whose record
\* Forget marked aside), its record is the entry of the key, a call that
\* finds the entry becomes a follower, and no follower runs fn
C1_OneExecution ==
  /\ [](/\ \A k \in Keys : Cardinality(LiveLeaders(k)) <= 1
        /\ \A k \in Keys : \A p \in LiveLeaders(k) : calls[k] = c[p]
        /\ \A p \in Procs : role[p] = "follower" => fnOut[p] = NoOut)
  /\ [][\A p \in Procs :
          (pc[p] = "locked" /\ calls[key[p]] # Nil /\ pc'[p] # "locked")
          => (pc'[p] = "select" /\ role'[p] = "follower"
              /\ c'[p] = calls[key[p]])]_vars

\* a leader is running fn and every other call has joined it
C1_Witness ==
  \E p \in Procs :
    /\ pc[p] = "fn"
    /\ ~recs[c[p]].forgotten
    /\ joined[p] = NumProcs - 1
    /\ \A q \in Procs \ {p} : pc[q] = "parked" /\ c[q] = c[p]

\* the followers that have returned through the case <-done
ViaSignal == {p \in Procs : role[p] = "follower" /\ pc[p] = "done"
                            /\ sel[p] = "done"}

\* C2: a follower that returns through the completion signal with a value
\* and an error returns shared = TRUE and the value and error that its
\* leader's fn returned, which are the ones the leader returns (has copied
\* at line 102 to return, or has returned) to its own caller
C2_FollowerSameOutcome ==
  \A p \in ViaSignal :
    LET l == ldr[p] IN
    res[p].kind = "ret" =>
      /\ res[p].shared
      /\ fnOut[l].kind = "ret"
      /\ res[p].val = fnOut[l].val
      /\ res[p].err = fnOut[l].err
      /\ pc[l] = "return" => (~panicked[l] /\ lval[l] = res[p].val
                                /\ lerr[l] = res[p].err)
      /\ pc[l] = "done" => (res[l].kind = "ret" /\ res[l].val = res[p].val
                              /\ res[l].err = res[p].err)

\* a leader whose fn returned an error and two followers of it have all
\* returned that error
C2_Witness ==
  \E l \in Procs :
    /\ role[l] = "leader" /\ pc[l] = "done"
    /\ res[l].kind = "ret" /\ res[l].err = l /\ res[l].val = Nil
    /\ Cardinality({p \in ViaSignal : ldr[p] = l /\ res[p] = res[l]}) = 2

\* C3: the shared flag a leader returns is TRUE exactly when a follower
\* joined that leader's own call
C3_LeaderSharedIffJoined ==
  \A p \in Procs :
    (role[p] = "leader" /\ pc[p] = "done" /\ res[p].kind = "ret")
    => (res[p].shared <=> joined[p] > 0)

\* what Do returns at line 77
CancelRes == [kind |-> "ret", val |-> Nil, shared |-> TRUE,
              err |-> ErrCanceled]

\* what a caller gets that receives the outcome of l's fn (the shared flag
\* aside): the value and the error, or the panic with its payload
Outcome(l) ==
  IF fnOut[l].kind = "panic"
  THEN [kind |-> "panic", payload |-> fnOut[l].payload]
  ELSE [kind |-> "ret", val |-> fnOut[l].val, err |-> fnOut[l].err]

Got(p) ==
  IF res[p].kind = "panic"
  THEN [kind |-> "panic", payload |-> res[p].payload]
  ELSE [kind |-> "ret", val |-> res[p].val, err |-> res[p].err]

Followers == {p \in Procs : role[p] = "follower"}
Leaders == {p \in Procs : role[p] = "leader"}

\* C4 as stated: a follower whose token is cancelled while its leader's fn
\* is running returns the cancellation error, shared = TRUE and a zero value
C4_CancelledDuringFnReturnsCancel ==
  \A p \in Followers :
    (pc[p] = "done" /\ cancelWhen[p] \in {"fnBlocked", "fnEarly"})
    => res[p] = CancelRes

\* the step is the cancellation of p's token, or p's return by case
\* <-ctx.Done()
CancelStep(p) ==
  \/ ~cancelled[p] /\ cancelled'[p]
  \/ pc[p] \in {"select", "woken"} /\ pc'[p] = "done" /\ sel'[p] = "ctx"

\* C4 amended: a follower blocked in the select when its token is cancelled
\* while the leader's fn is running returns the cancellation error with
\* shared = TRUE and a zero value, and so does every follower that leaves by
\* case <-ctx.Done(); while the leader's fn is running, the cancellation and
\* that return change nothing else: the record, the map and the pool are
\* untouched and no other call moves; the leader returns the outcome of its
\* fn and every follower that leaves by case <-done receives it
C4_CancelIsLocal ==
  /\ [](/\ \A p \in Followers :
             pc[p] = "done" =>
               /\ cancelWhen[p] = "fnBlocked" => sel[p] = "ctx"
               /\ sel[p] = "ctx" => res[p] = CancelRes
               /\ sel[p] = "done" => Got(p) = Outcome(ldr[p])
        /\ \A l \in Leaders : pc[l] = "done" => Got(l) = Outcome(l))
  /\ [][\A p \in Followers :
          (pc[ldr[p]] = "fn" /\ CancelStep(p))
          => /\ recs' = recs /\ calls' = calls /\ pool' = pool
             /\ fnOut' = fnOut
             /\ \A q \in Procs \ {p} :
                  /\ pc'[q] = pc[q] /\ res'[q] = res[q] /\ c'[q] = c[q]
                  /\ sel'[q] = sel[q] /\ cancelled'[q] = cancelled[q]]_vars

\* a follower cancelled while blocked during fn has returned the
\* cancellation error; its leader and the other follower have returned the
\* value of the leader's fn
C4_Witness ==
  \E p \in Followers, q \in Followers :
    /\ p # q /\ ldr[p] = ldr[q]
    /\ pc[p] = "done" /\ cancelWhen[p] = "fnBlocked" /\ res[p] = CancelRes
    /\ pc[q] = "done" /\ sel[q] = "done" /\ cancelWhen[q] = "never"
    /\ fnOut[ldr[p]] = [kind |-> "ret", val |-> ldr[p], err |-> Nil]
    /\ Got(q) = Outcome(ldr[p])
    /\ pc[ldr[p]] = "done" /\ Got(ldr[p]) = Outcome(ldr[p])

\* C5 as stated: when the leader fires the signal before the follower's
\* token is cancelled, the follower returns the leader's outcome and never
\* the cancellation error
C5_SignalFirstWins ==
  \A p \in Followers :
    (pc[p] = "done" /\ cancelWhen[p] \in {"firedWoken", "firedEarly"})
    => (sel[p] = "done" /\ res[p] # CancelRes)

\* C5 amended: a follower that the signal found blocked in the select, or
\* that reaches the select after the signal fired with its token not
\* cancelled, returns the leader's outcome and never the cancellation
\* error, also when its token is cancelled after the signal woke it and
\* before it resumes; a follower that reaches the select with the signal
\* fired and its token cancelled returns either
C5_WokenBySignalWins ==
  \A p \in Followers :
    /\ (pc[p] = "woken" /\ sel[p] = "done") => recs[c[p]].done = "closed"
    /\ pc[p] = "parked" => (recs[c[p]].done = "open" /\ ~cancelled[p])
    /\ (pc[p] = "done" /\ cancelWhen[p] \in {"firedWoken", "never"})
       => (sel[p] = "done" /\ res[p] # CancelRes
           /\ Got(p) = Outcome(ldr[p]))

\* a follower woken by the signal, then cancelled, has returned the value
\* of the leader's fn
C5_Witness ==
  \E p \in Followers :
    /\ pc[p] = "done" /\ cancelWhen[p] = "firedWoken"
    /\ sel[p] = "done"
    /\ res[p] = [kind |-> "ret", val |-> ldr[p], shared |-> TRUE,
                 err |-> Nil]

\* the follower has joined a record and has not returned
Waiting(p) == role[p] = "follower" /\ pc[p] \in {"select", "parked", "woken"}

\* C6: under fair scheduling and a terminating fn, every follower that
\* joined a record leaves its wait, whether or not its token is cancelled
\* and whether or not Forget marked the record; it leaves by the signal,
\* with the outcome of its leader's fn, or by its own cancellation
C6_FollowerLeaves ==
  /\ \A p \in Procs : Waiting(p) ~> (pc[p] = "done")
  /\ [](\A p \in Followers :
          pc[p] = "done" =>
            \/ sel[p] = "done" /\ Got(p) = Outcome(ldr[p])
            \/ sel[p] = "ctx" /\ cancelWhen[p] # "never")

\* a follower whose token was never cancelled and whose record Forget
\* marked has left with the outcome of its leader's fn
C6_Witness ==
  \E p \in Followers :
    /\ pc[p] = "done" /\ cancelWhen[p] = "never" /\ sel[p] = "done"
    /\ Got(p) = Outcome(ldr[p])
    /\ pc[ldr[p]] = "recycle" /\ recs[c[ldr[p]]].forgotten

\* the panic that Do raises with the payload of l's fn
PanicOf(l) == [kind |-> "panic", payload |-> fnOut[l].payload]

\* C7: when fn panics the payload is stored on the record, where it stays
\* until the leader has returned, and the leader and every follower that
\* leaves by the signal raise a panic with that payload instead of
\* returning a value and an error
C7_PanicReachesAll ==
  /\ \A l \in Leaders :
       fnOut[l].kind = "panic" =>
         /\ pc[l] # "done" => recs[c[l]].panicErr = fnOut[l].payload
         /\ pc[l] = "done" => res[l] = PanicOf(l)
  /\ \A p \in ViaSignal :
       fnOut[ldr[p]].kind = "panic" => res[p] = PanicOf(ldr[p])

\* a leader whose fn panicked and two followers have all raised the panic
C7_Witness ==
  \E l \in Leaders :
    /\ fnOut[l].kind = "panic" /\ pc[l] = "done" /\ res[l] = PanicOf(l)
    /\ Cardinality({p \in ViaSignal : ldr[p] = l /\ res[p] = PanicOf(l)}) = 2

\* C8: a record in the pool has no panic, no follower count and no done
\* channel and is not in the map; the record of a call whose fn panicked or
\* that a follower joined, also one that left by cancellation, stays out of
\* the pool and stays the record of that call as long as a participant
\* holds it
C8_OnlyCleanRecordsPooled ==
  /\ \A r \in pool :
       /\ recs[r].panicErr = Nil /\ recs[r].dups = 0 /\ recs[r].done = "nil"
       /\ \A k \in Keys : calls[k] # r
  /\ \A p \in Procs :
       Waiting(p) => (c[p] \notin pool /\ leaderOf[c[p]] = ldr[p])
  /\ \A l \in Leaders :
       (pc[l] = "return" /\ (fnOut[l].kind = "panic" \/ joined[l] > 0))
       => (c[l] \notin pool /\ leaderOf[c[l]] = l)

\* a leader is about to return from a call that its only follower left by
\* cancellation, and its record was not put into the pool
C8_Witness ==
  \E l \in Leaders, p \in Followers :
    /\ pc[l] = "return" /\ joined[l] = 1 /\ fnOut[l].kind = "ret"
    /\ ldr[p] = l /\ pc[p] = "done" /\ res[p] = CancelRes
    /\ c[l] \notin pool

\* C9: once Forget(key) has run while a leader of key is in flight, the
\* entry of key is not that leader's record any more, so that the next
\* Do(key) leads; every leader comes to return, and returns the outcome of
\* its own fn
C9_ForgetStartsIndependentLeader ==
  /\ [](/\ \A l \in Leaders :
             (pc[l] \in InFlight /\ recs[c[l]].forgotten)
             => calls[key[l]] # c[l]
        /\ \A l \in Leaders : pc[l] = "done" => Got(l) = Outcome(l))
  /\ \A l \in Procs : (role[l] = "leader") ~> (pc[l] = "done")

\* the leader that Forget marked has finished fn and not yet cleaned up,
\* and a later leader of the same key has run its own fn and returned its
\* outcome
C9_Witness ==
  \E p \in Leaders, q \in Leaders :
    /\ p < q /\ key[p] = key[q]
    /\ pc[p] = "deferLock" /\ recs[c[p]].forgotten
    /\ fnOut[p] = [kind |-> "ret", val |-> p, err |-> Nil]
    /\ pc[q] = "done"
    /\ res[q] = [kind |-> "ret", val |-> q, shared |-> FALSE, err |-> Nil]

\* C10: the entry of a key is the record of a leader of that key that has
\* not run its completion critical section, and that critical section
\* removes no entry but the one of the leader's own record
C10_EntryIsLiveLeader ==
  /\ [](\A k \in Keys :
          calls[k] # Nil =>
            LET l == leaderOf[calls[k]] IN
            /\ l \in Leaders /\ key[l] = k /\ c[l] = calls[k]
            /\ pc[l] \in InFlight)
  /\ [][\A p \in Procs :
          (pc[p] = "deferBody" /\ pc'[p] = "recycle")
          => \A k \in Keys : calls'[k] # calls[k] => calls[k] = c[p]]_vars

\* a leader that Forget marked has run its cleanup, and the entry of a
\* newer leader of the same key is still in the map
C10_Witness ==
  \E p \in Leaders, q \in Leaders :
    /\ p < q /\ key[p] = key[q]
    /\ pc[p] = "recycle" /\ recs[c[p]].forgotten
    /\ pc[q] \in InFlight /\ calls[key[q]] = c[q]

\* the Do calls on key k that have taken the lock of line 55 and have not
\* returned
InFlightDo(k) == {p \in Procs : key[p] = k /\ pc[p] \notin {"idle", "done"}}

\* C11: no result outlives its call: a key on which no Do is in flight has
\* no entry, so that the map is empty when no Do is in flight at all; the
\* entry of a key is never one that a leader past its completion critical
\* section inserted; a Do that finds no entry leads, and every
\* leader that returns has run its own fn and returns its outcome
C11_NoCaching ==
  /\ [](/\ \A k \in Keys : InFlightDo(k) = {} => calls[k] = Nil
        /\ (\A p \in Procs : pc[p] \in {"idle", "done"})
           => \A k \in Keys : calls[k] = Nil
        /\ \A l \in Leaders :
             /\ pc[l] \in {"recycle", "return", "done"}
                => (calls[key[l]] = Nil \/ leaderOf[calls[key[l]]] # l)
             /\ pc[l] = "done" => (fnOut[l] \in FnOutcomes(l)
                                   /\ Got(l) = Outcome(l)))
  /\ [][\A p \in Procs :
          (pc[p] = "locked" /\ calls[key[p]] = Nil /\ pc'[p] # "locked")
          => (pc'[p] = "fn" /\ role'[p] = "leader"
              /\ calls'[key[p]] = c'[p] /\ fnOut'[p] = NoOut)]_vars

\* two leaders have returned, one with the value of its fn and one with the
\* panic of its fn, and a Do on the same key, the only call in flight, has
\* taken the lock and finds no entry
C11_Witness ==
  \E p \in Leaders, q \in Leaders, n \in Procs :
    /\ pc[p] = "done" /\ pc[q] = "done" /\ pc[n] = "locked"
    /\ res[p] = [kind |-> "ret", val |-> p, shared |-> FALSE, err |-> Nil]
    /\ res[q] = [kind |-> "panic", payload |-> q]
    /\ InFlightDo(key[n]) = {n} /\ key[p] = key[n] /\ key[q] = key[n]
    /\ calls[key[n]] = Nil

\* a step that is not a step of a Do call and not a cancellation: it is a
\* step of Forget
ForgetStep == pc' = pc /\ cancelled' = cancelled

\* the step removes the entry of k and marks its record, and nothing else
ForgetsEntry(k) ==
  /\ calls[k] # Nil
  /\ calls' = [calls EXCEPT ![k] = Nil]
  /\ recs' = [recs EXCEPT ![calls[k]].forgotten = TRUE]
  /\ UNCHANGED <<mu, pool, nextRec, pc, key, c, cancelled, sel, lval, lerr,
                 panicked, res, histVars>>

\* C12: Forget(key) with no entry for key changes nothing: not the map, no
\* field of any record (of the other key's record, of a record that Forget
\* marked earlier), not the pool; a step of Forget that changes anything
\* removes an existing entry and marks the record of that entry.  Forget
\* returns: it blocks nowhere but in Lock, and the lock, when held, comes
\* to be released
C12_ForgetAbsentKeyNoOp ==
  /\ [][/\ \A k \in Keys : (calls[k] = Nil /\ Forget(k)) => UNCHANGED vars
        /\ ForgetStep => \E k \in Keys : ForgetsEntry(k)]_vars
  /\ [](mu = Nil => \A k \in Keys : ENABLED Forget(k))
  /\ (mu # Nil) ~> (mu = Nil)

\* the lock is free and key 2 has no entry, while key 1 has the entry of a
\* leader in flight, an earlier leader of key 1 that Forget marked is still
\* in flight, and the pool holds a record
C12_Witness ==
  \E p \in Leaders, q \in Leaders :
    /\ mu = Nil /\ calls[2] = Nil
    /\ pc[p] \in InFlight /\ recs[c[p]].forgotten
    /\ pc[q] \in InFlight /\ calls[1] = c[q] /\ ~recs[c[q]].forgotten
    /\ pool # {}

\* C13: a call reads and writes a record only while the record belongs to
\* it: the leader's return of lines 118-122, which reads c.panicErr or
\* c.dups, and the follower's wait and case <-done, which read c.done,
\* c.panicErr, c.val and c.err, act on a record that is not in the pool and
\* that no other call has taken from the pool since
C13_NoAccessAfterPut ==
  /\ [](\A p \in Procs :
          Waiting(p) => (c[p] \notin pool /\ leaderOf[c[p]] = ldr[p]))
  /\ [][\A l \in Procs :
          (pc[l] = "return" /\ pc'[l] = "done")
          => (c[l] \notin pool /\ leaderOf[c[l]] = l)]_vars

\* the positions of Do and doCall between a Lock and its Unlock
Critical == {"locked", "deferBody"}

\* C14: the lock is held only inside the critical sections of lines 55-68,
\* 55-96 and 132-139: a call that is running fn, or is a follower at or in
\* its select, does not hold it; the holder can take its next step, which
\* releases the lock, whatever the other calls are doing; and with the lock
\* free a Do and a Forget can take it, also while a fn is running and a
\* follower is blocked
C14_LockNotHeldWhileBlocked ==
  /\ \A p \in Procs : (mu = p) <=> (pc[p] \in Critical)
  /\ \A p \in Procs : pc[p] \in {"fn", "select", "parked", "woken"} => mu # p
  /\ \A p \in Procs :
       mu = p => ENABLED (Join(p) \/ Lead(p) \/ DeferBody(p))
  /\ mu = Nil =>
       /\ \A k \in Keys : ENABLED Forget(k)
       /\ \A p \in Procs : pc[p] = "deferLock" => ENABLED DeferLock(p)
       /\ (\E p \in Procs : pc[p] = "idle")
          => \E p \in Procs, k \in DoKeys : ENABLED DoLock(p, k)

\* a leader is running fn and a follower is blocked in its select, while a
\* third call holds the lock
C14_Witness ==
  \E l \in Leaders, p \in Followers, n \in Procs :
    /\ pc[l] = "fn" /\ pc[p] = "parked" /\ ldr[p] = l
    /\ pc[n] = "locked" /\ mu = n

\* the fields of record r that carry the outcome of fn
OutcomeFields(r) == <<recs[r].val, recs[r].err, recs[r].panicErr>>

\* the step discards record r: no call, map entry or pool refers to it
Discarded(r) == leaderOf[r] # Nil /\ leaderOf'[r] = Nil

\* the step is a step of goroutine p alone, the leader of record r
LeaderStepOn(p, r) ==
  /\ pc'[p] # pc[p] /\ \A q \in Procs \ {p} : pc'[q] = pc[q]
  /\ role'[p] = "leader" /\ c'[p] = r /\ leaderOf'[r] = p

\* C15: val, err and panicErr of a record are written only by a step of the
\* record's leader (the reset of line 92, lines 129 and 142, the zeroing of
\* lines 113-114), never by a follower's step, and never once the record's
\* done channel is closed; a record with a closed channel holds the outcome
\* of its leader's fn until it is discarded
C15_OutcomeWrittenOnlyByLeaderBeforeSignal ==
  /\ [][\A r \in Recs :
          (OutcomeFields(r)' # OutcomeFields(r) /\ ~Discarded(r))
          => /\ recs[r].done # "closed"
             /\ \E p \in Procs : LeaderStepOn(p, r)]_vars
  /\ [](\A r \in Recs :
          recs[r].done = "closed" =>
            LET out == fnOut[leaderOf[r]] IN
            OutcomeFields(r) =
              IF out.kind = "ret" THEN <<out.val, out.err, Nil>>
              ELSE <<Nil, Nil, out.payload>>)

\* the leader has returned the value of its fn, and its record, whose
\* channel is closed, still holds that value for a follower that the signal
\* woke and that has not yet read it
C15_Witness ==
  \E p \in Followers :
    /\ pc[p] = "woken" /\ sel[p] = "done"
    /\ pc[ldr[p]] = "done" /\ res[ldr[p]].kind = "ret"
    /\ recs[c[p]].done = "closed"
    /\ OutcomeFields(c[p]) = <<ldr[p], Nil, Nil>>

\* C16: the done channel is made by the first follower: in every state,
\* and so in every state with the lock free, a record has a channel exactly
\* when its follower count is positive, and a record in use has the count
\* of the followers that joined its leader; a leader that no follower
\* joined comes out of its completion critical section with done nil; a
\* channel once made stays on the record, open and then closed, until the
\* record is discarded
C16_SignalIffFollowers ==
  /\ [](/\ \A r \in Recs : (recs[r].done # "nil") <=> (recs[r].dups > 0)
        /\ \A r \in Recs :
             leaderOf[r] # Nil => recs[r].dups = joined[leaderOf[r]]
        /\ \A l \in Leaders :
             (pc[l] = "recycle" /\ joined[l] = 0) => recs[c[l]].done = "nil")
  /\ [][\A r \in Recs :
          (recs[r].done # "nil" /\ ~Discarded(r))
          => /\ recs'[r].done # "nil"
             /\ recs[r].done = "closed" => recs'[r].done = "closed"]_vars

\* with the lock free, a leader that Forget marked and no follower joined
\* is out of its completion critical section with done nil, while the
\* record of a later leader, which a follower joined, has an open channel
C16_Witness ==
  \E l \in Leaders, m \in Leaders :
    /\ mu = Nil
    /\ pc[l] = "recycle" /\ joined[l] = 0 /\ recs[c[l]].done = "nil"
    /\ pc[m] = "fn" /\ joined[m] = 1 /\ recs[c[m]].done = "open"
    /\ recs[c[m]].dups = 1

\* the leader has run fn and its completion critical section
Completed(l) == fnOut[l] # NoOut /\ pc[l] \in {"recycle", "return", "done"}

\* C17: a follower that has left by case <-done left after its leader ran
\* fn and the completion critical section, and what it read from the record
\* is the outcome of that leader's fn, not of an earlier call on the same
\* record; the record of a map entry never has a closed channel; and the
\* record a leader inserts, new or from the pool, has no channel, no
\* follower count and no panic
C17_NoStaleSignal ==
  /\ [](/\ \A p \in ViaSignal :
             Completed(ldr[p]) /\ Got(p) = Outcome(ldr[p])
        /\ \A p \in Followers :
             (pc[p] = "woken" /\ sel[p] = "done")
             => (Completed(ldr[p]) /\ leaderOf[c[p]] = ldr[p])
        /\ \A k \in Keys :
             calls[k] # Nil => recs[calls[k]].done # "closed")
  /\ [][\A p \in Procs :
          (pc[p] = "locked" /\ pc'[p] = "fn")
          => /\ calls'[key[p]] = c'[p]
             /\ recs'[c'[p]].done = "nil"
             /\ recs'[c'[p]].dups = 0
             /\ recs'[c'[p]].panicErr = Nil]_vars

\* one record has served two leaders in turn, and a follower of the second
\* has returned the value of the second leader's fn
C17_Witness ==
  \E p \in ViaSignal :
    /\ nextRec = 1 /\ Cardinality(Leaders) = 2
    /\ res[p] = [kind |-> "ret", val |-> ldr[p], shared |-> TRUE,
                 err |-> Nil]

\* the followers of leader l that have not returned
WaitingOn(l) == {p \in Followers : ldr[p] = l /\ Waiting(p)}

\* C18: a leader whose fn panicked raises the panic after its completion
\* critical section: from the end of that critical section on, and so when
\* its caller sees the panic, the map has no entry that this leader
\* inserted and the channel its followers wait on is closed, none of them
\* is blocked; its record never reaches the pool; and a leader that has not
\* finished its own fn has a record with no panic, whatever the earlier
\* calls on the key and on the record did
C18_PanicAfterCleanup ==
  /\ [](/\ \A l \in Leaders :
             (fnOut[l].kind = "panic"
              /\ pc[l] \in {"recycle", "return", "done"})
             => /\ calls[key[l]] = Nil \/ leaderOf[calls[key[l]]] # l
                /\ \A p \in WaitingOn(l) :
                     recs[c[p]].done = "closed" /\ pc[p] # "parked"
                /\ pc[l] # "done" => c[l] \notin pool
        /\ \A l \in Leaders :
             res[l].kind = "panic" => (pc[l] = "done" /\ res[l] = PanicOf(l))
        /\ \A r \in pool : recs[r].panicErr = Nil
        /\ \A l \in Leaders : pc[l] = "fn" => recs[c[l]].panicErr = Nil)
  /\ [][\A l \in Procs :
          (res'[l].kind = "panic" /\ res[l].kind # "panic"
           /\ role[l] = "leader")
          => pc[l] = "return"]_vars

\* a leader and its follower have raised the panic of the leader's fn, and
\* a later Do on the key leads and runs fn on a record with no panic
C18_Witness ==
  \E l \in Leaders, p \in ViaSignal, n \in Leaders :
    /\ pc[l] = "done" /\ res[l] = [kind |-> "panic", payload |-> l]
    /\ ldr[p] = l /\ res[p] = res[l]
    /\ l < n /\ key[n] = key[l] /\ pc[n] = "fn"
    /\ calls[key[n]] = c[n] /\ recs[c[n]].panicErr = Nil

\* C19: Forget leaves the followers of the record it marks where they are:
\* they keep the record and its leader, the leader's completion critical
\* section closes their channel whether or not the record is marked, after
\* it none of them is blocked, and those that leave by the signal return
\* that leader's outcome.  A Do that takes the lock after Forget finds no
\* marked record in the map: it joins only a record that Forget has not
\* marked, or leads, and returns no outcome but its own fn's, that of the
\* leader it joined, or its cancellation
C19_ForgetKeepsWaiters ==
  /\ [](/\ \A k \in Keys : calls[k] # Nil => ~recs[calls[k]].forgotten
        /\ \A p \in Followers :
             Waiting(p) =>
               /\ leaderOf[c[p]] = ldr[p]
               /\ pc[ldr[p]] \notin InFlight
                  => (recs[c[p]].done = "closed" /\ pc[p] # "parked")
        /\ \A p \in Followers :
             pc[p] = "done" =>
               \/ sel[p] = "done" /\ Got(p) = Outcome(ldr[p])
               \/ sel[p] = "ctx" /\ res[p] = CancelRes
        /\ \A l \in Leaders : pc[l] = "done" => Got(l) = Outcome(l))
  /\ [][/\ \A p \in Procs :
             (pc[p] = "locked" /\ pc'[p] = "select")
             => (~recs[calls[key[p]]].forgotten
                 /\ pc[leaderOf[calls[key[p]]]] \in InFlight)
        /\ \A k \in Keys :
             (ForgetStep /\ ForgetsEntry(k))
             => \A p \in Procs : c'[p] = c[p] /\ ldr'[p] = ldr[p]
        /\ \A l \in Procs :
             (pc[l] = "deferBody" /\ pc'[l] = "recycle" /\ joined[l] > 0)
             => recs'[c[l]].done = "closed"]_vars

\* a follower that joined before Forget has returned the value of the old
\* leader, whose record Forget marked, and the Do that came after Forget
\* has led and returned the value of its own fn
C19_Witness ==
  \E l \in Leaders, p \in ViaSignal, n \in Leaders :
    /\ pc[l] = "recycle" /\ recs[c[l]].forgotten
    /\ ldr[p] = l
    /\ res[p] = [kind |-> "ret", val |-> l, shared |-> TRUE, err |-> Nil]
    /\ l < n /\ key[n] = key[l] /\ pc[n] = "done"
    /\ res[n] = [kind |-> "ret", val |-> n, shared |-> FALSE, err |-> Nil]

\* C20 as stated: every record in the pool has a nil channel, no follower
\* count, forgotten = FALSE, a zero value, a nil error and no panic
C20_PooledRecordsClean ==
  \A r \in pool : recs[r] = ZeroCall

\* C20 amended: every record in the pool has a nil channel, no follower
\* count, a zero value, a nil error and no panic; its forgotten flag is the
\* one its last call left, TRUE when Forget marked that call; the leader
\* that takes a record, from the pool or new, clears the flag before it
\* inserts the record, so that the record of a map entry is never marked
\* by a Forget of an earlier call
C20_PooledCleanButForgotten ==
  /\ [](/\ \A r \in pool : [recs[r] EXCEPT !.forgotten = FALSE] = ZeroCall
        /\ \A k \in Keys : calls[k] # Nil => ~recs[calls[k]].forgotten)
  /\ [][\A p \in Procs :
          (pc[p] = "locked" /\ pc'[p] = "fn")
          => (recs'[c'[p]] = ZeroCall /\ c'[p] \notin pool')]_vars

\* the pool holds a record that Forget marked, and a Do holds the lock and
\* finds no entry: it is about to take a record from the pool
C20_Witness ==
  \E r \in pool, p \in Procs :
    /\ recs[r].forgotten
    /\ pc[p] = "locked" /\ calls[key[p]] = Nil
====
